---- MODULE Spec2Model ----
(***************************************************************************)
(* quick_setup.py: the one-click setup script.  main() builds a QuickSetup *)
(* and calls run_setup(), which prints a banner, waits for Enter, writes   *)
(* the files of the files_to_create mapping, shells out to git, gh and     *)
(* vercel, and prints a completion summary.  The generated api/*.py stub   *)
(* handlers are modelled in the second half (SpecApi).                     *)
(***************************************************************************)
EXTENDS Integers, Sequences, FiniteSets, TLC

VARIABLES
    pc,          \* position of the script (see the actions below)
    idx,         \* create_all_files: 1-based position in files_to_create.items()
    disk,        \* the filesystem: a function from existing file paths to content
    dirs,        \* the directories that exist
    running,     \* the external commands in flight (child processes not yet reaped)
    log,         \* every observable event so far, in order
    ret,         \* the return value of run_setup: "none", "True" or "False"
    mainRet,     \* the return value of main: "none", "True" or "False"
    exitStatus,  \* the exit status of the process: -1 while it runs
    clock,       \* datetime.now() of the deployed stub handlers
    served       \* the requests the deployed stub handlers answered, with the responses

vars == <<pc, idx, disk, dirs, running, log, ret, mainRet, exitStatus, clock, served>>

setupVars == <<pc, idx, disk, dirs, running, log, ret, mainRet, exitStatus>>

apiVars == <<clock, served>>

(***************************************************************************)
(* Bounds of the model.                                                    *)
(***************************************************************************)
\* the longest standard output of the vercel command, in tokens
MaxOut == 5

\* the number of requests the deployed handlers serve in one behaviour
MaxRequests == 2

\* the last tick of the handlers' clock
MaxClock == 2

(***************************************************************************)
(* Events.  Every print, file write, command start and command end is      *)
(* appended to log, so that orders and counts can be read off it.          *)
(***************************************************************************)
Event(k, v, arg) == [k |-> k, v |-> v, arg |-> arg]

\* print(...) of a fixed line, and print(f"...") of a line with a value in it
Say(m) == Event("print", m, <<>>)

SayArg(m, arg) == Event("print", m, arg)

(***************************************************************************)
(* create_all_files: the mapping, in insertion order.  A path is the       *)
(* sequence of its components; a content is a sequence of chunks, the      *)
(* empty sequence being the empty string.  The chunk named after a getter  *)
(* stands for the literal that getter returns.                             *)
(***************************************************************************)
File(path, content) == [path |-> path, content |-> content]

files_to_create ==
    << File(<<"api", "launch.py">>, <<"get_launch_api">>),
       File(<<"api", "scaling.py">>, <<"get_scaling_api">>),
       File(<<"api", "status.py">>, <<"get_status_api">>),
       File(<<"api", "ai-learning.py">>, <<"get_ai_learning_api">>),
       File(<<"frontend", "index.html">>, <<"get_dashboard_html">>),
       File(<<"core", "__init__.py">>, <<>>),
       File(<<"core", "scaling_engine.py">>, <<"get_scaling_engine">>),
       File(<<"utils", "__init__.py">>, <<>>),
       File(<<"utils", "config.py">>, <<"get_config_utils">>),
       File(<<"vercel.json">>, <<"get_vercel_config">>),
       File(<<"package.json">>, <<"get_package_json">>),
       File(<<"requirements.txt">>, <<"get_requirements">>),
       File(<<".env.example">>, <<"get_env_example">>),
       File(<<"README.md">>, <<"get_readme">>),
       File(<<".github", "workflows", "deploy.yml">>, <<"get_github_workflow">>),
       File(<<"deploy.py">>, <<"get_deploy_script">>) >>

Paths == {files_to_create[i].path : i \in 1..Len(files_to_create)}

\* os.path.dirname: the path without its last component
Dirname(path) == SubSeq(path, 1, Len(path) - 1)

\* Path(directory).mkdir(parents=True, exist_ok=True): the directory and its parents
MkdirParents(directory) == {SubSeq(directory, 1, n) : n \in 1..Len(directory)}

\* open(file_path, 'w'): the file is created, or truncated when it exists
OpenAppend(fs, path) == IF path \in DOMAIN fs THEN fs ELSE (path :> <<>>) @@ fs

OpenW(fs, path) == (path :> <<>>) @@ fs

\* f.write(content)
FWrite(fs, path, content) == (path :> (fs[path] \o content)) @@ fs

\* the for loop of create_all_files is over once every item was visited
LoopDoneEarly(i) == i >= Len(files_to_create)

LoopDone(i) == i > Len(files_to_create)

\* what one iteration of the loop can end with
FileOutcomes == {"ok", "mkdir_error", "open_error", "write_error", "interrupt"}

(***************************************************************************)
(* The filesystem the script starts in: an empty directory, or one that    *)
(* holds the files of an earlier run with other content.                   *)
(***************************************************************************)
EmptyDisk == <<>>

StaleDisk == [p \in Paths |-> <<"stale">>]

StaleDirs == UNION {MkdirParents(Dirname(p)) : p \in Paths}

(***************************************************************************)
(* setup_git_and_deploy: the external commands, in the order of the code.  *)
(***************************************************************************)
GitPhase == <<"git init", "git add", "git commit">>

GhPhase == <<"gh repo create", "git remote add", "git push">>

VercelCmd == "vercel"

CommandOrder == GitPhase \o GhPhase \o <<VercelCmd>>

Commands == {CommandOrder[i] : i \in 1..Len(CommandOrder)}

InSeq(x, s) == \E i \in 1..Len(s) : s[i] = x

\* the try block a command is called in
Phase(c) == IF InSeq(c, GitPhase) THEN "git" ELSE IF InSeq(c, GhPhase) THEN "gh" ELSE "vercel"

\* subprocess.run(..., check=True) raises CalledProcessError on a non-zero exit
Checked(c) == c # VercelCmd

\* subprocess.run(..., capture_output=True, text=True) returns the output
Captured(c) == c = VercelCmd

(***************************************************************************)
(* The standard output of the vercel command: a string, here a sequence of *)
(* tokens.  "\n" is the newline, " " a blank, "x" any other text.          *)
(***************************************************************************)
Tokens == {"https://", "vercel.app", "\n", " ", "x"}

Stdouts == UNION {[1..n -> Tokens] : n \in 0..MaxOut}

ReturnCodes == {0, 1, 128}

\* what subprocess.run can do: return a CompletedProcess, or raise
Exit(rc, out) == [kind |-> "exit", rc |-> rc, stdout |-> out]

Raise(e) == [kind |-> e, rc |-> -1, stdout |-> <<>>]

Outcomes(c) ==
    {Exit(rc, out) : rc \in ReturnCodes, out \in (IF Captured(c) THEN Stdouts ELSE {<<>>})}
        \cup {Raise(e) : e \in {"FileNotFoundError", "OSError", "KeyboardInterrupt"}}

\* the exception a call of subprocess.run ends with, "none" when it returns
Raised(c, o) ==
    IF o.kind # "exit" THEN o.kind
    ELSE IF Checked(c) /\ o.rc # 0 THEN "CalledProcessError"
    ELSE "none"

\* KeyboardInterrupt and SystemExit derive from BaseException, not Exception
IsExceptionAll(e) == TRUE

IsException(e) == e \in {"CalledProcessError", "FileNotFoundError", "OSError", "EOFError"}

(***************************************************************************)
(* Which except clause takes an exception of command c.  The gh try has a  *)
(* bare except, the git try an except Exception, the vercel try an except  *)
(* FileNotFoundError; what they let through reaches run_setup.             *)
(***************************************************************************)
CaughtByOuter(c, e) ==
    IF Phase(c) \in {"git", "gh"} /\ IsException(e) THEN "git_except"
    ELSE IF Phase(c) = "vercel" /\ e = "FileNotFoundError" THEN "vercel_except"
    ELSE IF e = "KeyboardInterrupt" THEN "run_setup_interrupt"
    ELSE "run_setup_exception"

CaughtBy(c, e) ==
    IF Phase(c) = "gh" THEN "gh_except"
    ELSE IF Phase(c) = "git" /\ IsException(e) THEN "git_except"
    ELSE IF Phase(c) = "vercel" /\ e = "FileNotFoundError" THEN "vercel_except"
    ELSE IF e = "KeyboardInterrupt" THEN "run_setup_interrupt"
    ELSE "run_setup_exception"

\* the except clauses of run_setup, for what create_all_files and print_banner raise
RunSetupCatches(e) == IF e = "KeyboardInterrupt" THEN "run_setup_interrupt" ELSE "run_setup_exception"

\* what an except clause prints
HandlerPrints(h) ==
    CASE h = "git_except" -> <<Say("git_failed")>>
      [] h = "gh_except" -> <<Say("gh_unavailable")>>
      [] h = "vercel_except" -> <<Say("vercel_notfound"), Say("vercel_hint")>>
      [] h = "run_setup_interrupt" -> <<Say("setup_cancelled")>>
      [] h = "run_setup_exception" -> <<Say("setup_failed"), Say("check_error")>>

\* where the script goes on after an except clause
HandlerNextRetry(h) ==
    CASE h = "git_except" -> "git init"
      [] h = "gh_except" -> VercelCmd
      [] h = "vercel_except" -> "summary"
      [] h = "run_setup_interrupt" -> "main"
      [] h = "run_setup_exception" -> "main"

HandlerNextSwallow(h) ==
    CASE h = "git_except" -> VercelCmd
      [] h = "gh_except" -> VercelCmd
      [] h = "vercel_except" -> "summary"
      [] h = "run_setup_interrupt" -> "main"
      [] h = "run_setup_exception" -> CommandOrder[1]

HandlerNext(h) ==
    CASE h = "git_except" -> VercelCmd
      [] h = "gh_except" -> VercelCmd
      [] h = "vercel_except" -> "summary"
      [] h = "run_setup_interrupt" -> "main"
      [] h = "run_setup_exception" -> "main"

\* run_setup returns False from both of its except clauses
HandlerRetTrue(h) ==
    IF h = "run_setup_interrupt" THEN "False"
    ELSE IF h = "run_setup_exception" THEN "True"
    ELSE "none"

HandlerRet(h) == IF h \in {"run_setup_interrupt", "run_setup_exception"} THEN "False" ELSE "none"

\* the statement after a call of subprocess.run that returned normally
OnSuccessSkipGh(c) ==
    CASE c = "git init" -> "git add"
      [] c = "git add" -> "git commit"
      [] c = "git commit" -> VercelCmd
      [] c = "gh repo create" -> "git remote add"
      [] c = "git remote add" -> "git push"
      [] c = "git push" -> VercelCmd
      [] c = VercelCmd -> "summary"

OnSuccess(c) ==
    CASE c = "git init" -> "git add"
      [] c = "git add" -> "git commit"
      [] c = "git commit" -> "gh repo create"
      [] c = "gh repo create" -> "git remote add"
      [] c = "git remote add" -> "git push"
      [] c = "git push" -> VercelCmd
      [] c = VercelCmd -> "summary"

\* the prints that follow the last command of the git try and of the gh try
SuccessPrintsEarly(c) ==
    IF c = "git init" THEN <<Say("git_ok")>>
    ELSE IF c = "git push" THEN <<Say("gh_ok")>>
    ELSE <<>>

SuccessPrints(c) ==
    IF c = "git commit" THEN <<Say("git_ok")>>
    ELSE IF c = "git push" THEN <<Say("gh_ok")>>
    ELSE <<>>

\* the prints that precede the first command of the git try and the vercel try
BeforePrints(c) ==
    IF c = "git init" THEN <<Say("git_setup")>>
    ELSE IF c = VercelCmd THEN <<Say("deploying")>>
    ELSE <<>>

\* subprocess.run waits for the child: the script stays at the call
AfterInvokeNoWait(c) == OnSuccess(c)

AfterInvoke(c) == c

(***************************************************************************)
(* The report of the vercel result.                                        *)
(***************************************************************************)
RECURSIVE SplitFrom(_, _)
SplitFrom(s, cur) ==
    IF s = <<>> THEN <<cur>>
    ELSE IF Head(s) = "\n" THEN <<cur>> \o SplitFrom(Tail(s), <<>>)
    ELSE SplitFrom(Tail(s), Append(cur, Head(s)))

\* result.stdout.split('\n')
Split(s) == SplitFrom(s, <<>>)

\* 'tok' in line
Contains(line, tok) == \E i \in 1..Len(line) : line[i] = tok

RECURSIVE LStrip(_)
LStrip(line) == IF line # <<>> /\ Head(line) = " " THEN LStrip(Tail(line)) ELSE line

RECURSIVE RStrip(_)
RStrip(line) ==
    IF line # <<>> /\ line[Len(line)] = " " THEN RStrip(SubSeq(line, 1, Len(line) - 1)) ELSE line

\* line.strip()
Strip(line) == RStrip(LStrip(line))

IsUrlLine(line) == Contains(line, "https://") /\ Contains(line, "vercel.app")

\* the for loop over the lines, left at the first match by break
RECURSIVE ExtractUrl(_)
ExtractUrl(lines) ==
    IF lines = <<>> THEN <<>>
    ELSE IF IsUrlLine(Head(lines)) THEN <<SayArg("live_url", Strip(Head(lines)))>>
    ELSE ExtractUrl(Tail(lines))

\* if result.returncode == 0: ... else: ...
VercelReport(o) ==
    IF o.rc = 0 THEN <<Say("vercel_ok")>> \o ExtractUrl(Split(o.stdout))
    ELSE <<Say("vercel_failed"), Say("vercel_hint")>>

(***************************************************************************)
(* The script, one action per step.                                        *)
(***************************************************************************)
InitSetup ==
    /\ pc = "banner"
    /\ idx = 1
    /\ \/ disk = EmptyDisk /\ dirs = {}
       \/ disk = StaleDisk /\ dirs = StaleDirs
    /\ running = {}
    /\ log = <<>>
    /\ ret = "none"
    /\ mainRet = "none"
    /\ exitStatus = -1

InitApi ==
    /\ clock = 0
    /\ served = <<>>

Init == InitSetup /\ InitApi

\* an exception that reaches the except clauses of run_setup
ToRunSetup(e, events) ==
    /\ log' = log \o events \o HandlerPrints(RunSetupCatches(e))
    /\ ret' = HandlerRet(RunSetupCatches(e))
    /\ pc' = HandlerNext(RunSetupCatches(e))

\* print_banner: print(banner)
PrintBanner ==
    /\ pc = "banner"
    /\ log' = Append(log, Say("banner"))
    /\ pc' = "input"
    /\ UNCHANGED <<idx, disk, dirs, running, ret, mainRet, exitStatus>>
    /\ UNCHANGED apiVars

\* print_banner: the except KeyboardInterrupt around input()
PromptCatchesNone(e) == FALSE

PromptCatches(e) == e = "KeyboardInterrupt"

\* print_banner: input(), which Enter, Ctrl+C or the end of stdin ends
Prompt ==
    /\ pc = "input"
    /\ \E o \in {"enter", "KeyboardInterrupt", "EOFError"} :
          CASE o = "enter" ->
                 /\ log' = Append(log, Event("input", "enter", <<>>))
                 /\ pc' = "starting"
                 /\ UNCHANGED <<ret, exitStatus>>
            [] o # "enter" /\ PromptCatches(o) ->
                 \* sys.exit(1): SystemExit passes both except clauses of run_setup
                 /\ log' = log \o <<Event("input", o, <<>>), Say("banner_cancelled")>>
                 /\ pc' = "done"
                 /\ exitStatus' = 1
                 /\ UNCHANGED ret
            [] o # "enter" /\ ~PromptCatches(o) ->
                 /\ ToRunSetup(o, <<Event("input", o, <<>>)>>)
                 /\ UNCHANGED exitStatus
    /\ UNCHANGED <<idx, disk, dirs, running, mainRet>>
    /\ UNCHANGED apiVars

\* run_setup: the two prints after the banner; create_all_files: its first print
Starting ==
    /\ pc = "starting"
    /\ log' = log \o <<Say("starting"), Say("rule"), Say("creating")>>
    /\ idx' = 1
    /\ pc' = "create"
    /\ UNCHANGED <<disk, dirs, running, ret, mainRet, exitStatus>>
    /\ UNCHANGED apiVars

\* create_all_files: one iteration of the loop
CreateFile ==
    /\ pc = "create"
    /\ ~LoopDone(idx)
    /\ LET f == files_to_create[idx]
           directory == Dirname(f.path)
           made == IF directory # <<>> THEN dirs \cup MkdirParents(directory) ELSE dirs
           written == Event("write", "file", f.path)
           raised(o) == <<Event("raise", o, f.path)>>
       IN \E o \in FileOutcomes :
             CASE o = "ok" ->
                    /\ dirs' = made
                    /\ disk' = FWrite(OpenW(disk, f.path), f.path, f.content)
                    /\ log' = log \o <<written, SayArg("created", f.path)>>
                    /\ idx' = idx + 1
                    /\ UNCHANGED <<pc, ret>>
               [] o = "mkdir_error" ->
                    /\ directory # <<>>
                    /\ ToRunSetup("OSError", raised(o))
                    /\ UNCHANGED <<dirs, disk, idx>>
               [] o = "open_error" ->
                    /\ dirs' = made
                    /\ ToRunSetup("OSError", raised(o))
                    /\ UNCHANGED <<disk, idx>>
               [] o = "write_error" ->
                    /\ dirs' = made
                    /\ disk' = OpenW(disk, f.path)
                    /\ ToRunSetup("OSError", raised(o))
                    /\ UNCHANGED idx
               [] o = "interrupt" ->
                    /\ \/ UNCHANGED <<dirs, disk>>
                       \/ dirs' = made /\ disk' = OpenW(disk, f.path)
                    /\ ToRunSetup("KeyboardInterrupt", raised(o))
                    /\ UNCHANGED idx
    /\ UNCHANGED <<running, mainRet, exitStatus>>
    /\ UNCHANGED apiVars

\* create_all_files: the print after the loop; run_setup goes on to setup_git_and_deploy
FinishCreate ==
    /\ pc = "create"
    /\ LoopDone(idx)
    /\ log' = Append(log, SayArg("created_total", <<Len(files_to_create)>>))
    /\ pc' = CommandOrder[1]
    /\ UNCHANGED <<idx, disk, dirs, running, ret, mainRet, exitStatus>>
    /\ UNCHANGED apiVars

\* setup_git_and_deploy: subprocess.run starts the child
Invoke ==
    /\ pc \in Commands
    /\ pc \notin running
    /\ running' = running \cup {pc}
    /\ log' = log \o BeforePrints(pc) \o <<Event("run", pc, <<>>)>>
    /\ pc' = AfterInvoke(pc)
    /\ UNCHANGED <<idx, disk, dirs, ret, mainRet, exitStatus>>
    /\ UNCHANGED apiVars

\* setup_git_and_deploy: subprocess.run returns or raises, and the code that follows
Complete ==
    /\ \E c \in running : \E o \in Outcomes(c) :
          LET e == Raised(c, o)
              ended == <<Event("end", c, <<o.kind, o.rc>>)>>
          IN IF e = "none"
             THEN /\ log' = log \o ended
                           \o (IF c = VercelCmd THEN VercelReport(o) ELSE SuccessPrints(c))
                  /\ pc' = OnSuccess(c)
                  /\ running' = running \ {c}
                  /\ UNCHANGED ret
             ELSE /\ log' = log \o ended \o HandlerPrints(CaughtBy(c, e))
                  /\ pc' = HandlerNext(CaughtBy(c, e))
                  /\ ret' = HandlerRet(CaughtBy(c, e))
                  /\ running' = running \ {c}
    /\ UNCHANGED <<idx, disk, dirs, mainRet, exitStatus>>
    /\ UNCHANGED apiVars

\* run_setup: print_completion_summary and return True
Summary ==
    /\ pc = "summary"
    /\ log' = Append(log, Say("summary"))
    /\ ret' = "True"
    /\ pc' = "main"
    /\ UNCHANGED <<idx, disk, dirs, running, mainRet, exitStatus>>
    /\ UNCHANGED apiVars

\* main: the final line, and the return; the process ends with status 0
MainReport ==
    /\ pc = "main"
    /\ log' = Append(log, IF ret = "True" THEN Say("main_ok") ELSE Say("main_errors"))
    /\ mainRet' = ret
    /\ exitStatus' = 0
    /\ pc' = "done"
    /\ UNCHANGED <<idx, disk, dirs, running, ret>>
    /\ UNCHANGED apiVars

Next ==
    \/ PrintBanner
    \/ Prompt
    \/ Starting
    \/ CreateFile
    \/ FinishCreate
    \/ Invoke
    \/ Complete
    \/ Summary
    \/ MainReport

Spec == Init /\ [][Next]_vars

(***************************************************************************)
(* Reading the log.                                                        *)
(***************************************************************************)
At(k, v) == {i \in 1..Len(log) : log[i].k = k /\ log[i].v = v}

Said(m) == At("print", m) # {}

Writes == {i \in 1..Len(log) : log[i].k = "write"}

RunsAll == {i \in 1..Len(log) : log[i].k = "run"}

Attempted(c) == At("run", c) # {}

\* the command ended with exit status 0
Succeeded(c) == \E i \in At("end", c) : log[i].arg = <<"exit", 0>>

\* the end event at i is a user interrupt
Interrupted(i) == log[i].arg[1] = "KeyboardInterrupt"

\* the end event at i is a failure: a non-zero exit status or a failure to launch
FailedAt(i) == log[i].k = "end" /\ log[i].arg # <<"exit", 0>> /\ ~Interrupted(i)

Rank(c) == CHOOSE r \in 1..Len(CommandOrder) : CommandOrder[r] = c

WrittenBefore(j) == {log[i].arg : i \in {w \in Writes : w < j}}

RunSetupReturned == ret # "none"

(***************************************************************************)
(* C1.  In a run that reaches the completion summary the events come in    *)
(* this order: the banner, the answered Enter prompt, the 16 file writes,  *)
(* the git commands in the order init, add, commit, the gh-phase commands  *)
(* (if any), the vercel invocation, the summary.  In every run, no file is *)
(* written after a command was started and no command is started before   *)
(* all 16 files were written.                                              *)
(***************************************************************************)
C1_Order ==
    /\ \A j \in RunsAll : \A i \in Writes : i < j
    /\ \A j \in RunsAll : WrittenBefore(j) = Paths /\ Cardinality(Paths) = 16
    /\ Said("summary") =>
          LET s == CHOOSE i \in At("print", "summary") : TRUE
          IN /\ log[1] = Say("banner")
             /\ log[2] = Event("input", "enter", <<>>)
             /\ \A i \in Writes : 2 < i /\ i < s
             /\ WrittenBefore(s) = Paths
             /\ \A i, j \in RunsAll : i < j => Rank(log[i].v) < Rank(log[j].v)
             /\ Attempted("git init")
             /\ Attempted(VercelCmd)
             /\ \A i \in RunsAll : i < s
             /\ \A i \in 1..Len(log) : log[i].k = "end" => i < s
             /\ At("print", "summary") = {s}

\* the summary was printed in a run that attempted all seven commands
C1_Witness ==
    /\ Said("summary")
    /\ \A c \in Commands : Attempted(c)

(***************************************************************************)
(* C2.  When create_all_files has returned normally, the files it wrote    *)
(* are exactly the 16 paths of the mapping, each holds exactly the content *)
(* the mapping gives it (the empty string for the two __init__.py), and    *)
(* the count it reported is 16.                                            *)
(***************************************************************************)
ExpectedPaths ==
    { <<"api", "launch.py">>, <<"api", "scaling.py">>, <<"api", "status.py">>,
      <<"api", "ai-learning.py">>, <<"frontend", "index.html">>, <<"core", "__init__.py">>,
      <<"core", "scaling_engine.py">>, <<"utils", "__init__.py">>, <<"utils", "config.py">>,
      <<"vercel.json">>, <<"package.json">>, <<"requirements.txt">>, <<".env.example">>,
      <<"README.md">>, <<".github", "workflows", "deploy.yml">>, <<"deploy.py">> }

ContentOf(p) == files_to_create[CHOOSE i \in 1..Len(files_to_create) : files_to_create[i].path = p].content

C2_FilesWritten ==
    Said("created_total") =>
        /\ {log[i].arg : i \in Writes} = ExpectedPaths
        /\ Cardinality(ExpectedPaths) = 16
        /\ \A p \in ExpectedPaths : p \in DOMAIN disk /\ disk[p] = ContentOf(p)
        /\ disk[<<"core", "__init__.py">>] = <<>>
        /\ disk[<<"utils", "__init__.py">>] = <<>>
        /\ disk[<<"api", "launch.py">>] = <<"get_launch_api">>
        /\ \A i \in At("print", "created_total") : log[i].arg = <<16>>
        /\ \A p \in ExpectedPaths : Dirname(p) # <<>> => Dirname(p) \in dirs

\* create_all_files has just returned normally
C2_Witness ==
    /\ Said("created_total")
    /\ pc = "git init"
    /\ disk[<<"README.md">>] = <<"get_readme">>

(***************************************************************************)
(* C3.  Every failure of an external command (a non-zero exit status or a  *)
(* failure to launch the executable; a user interrupt is not one) is       *)
(* caught inside setup_git_and_deploy: once run_setup has returned from a  *)
(* run in which commands ended and none was interrupted, it has printed    *)
(* the completion summary and returned True.                               *)
(***************************************************************************)
NoInterrupt == \A i \in 1..Len(log) : log[i].k = "end" => ~Interrupted(i)

C3_FailuresCaught ==
    (RunSetupReturned /\ RunsAll # {} /\ NoInterrupt) => (ret = "True" /\ Said("summary"))

(***************************************************************************)
(* C4.  As claimed: once file creation has finished, gh repo create and    *)
(* vercel are each attempted whether or not git init/add/commit succeeded. *)
(***************************************************************************)
GitPhaseInterrupted ==
    \E i \in 1..Len(log) : log[i].k = "end" /\ Phase(log[i].v) = "git" /\ Interrupted(i)

C4_Original ==
    /\ (RunSetupReturned /\ Said("created_total") /\ ~GitPhaseInterrupted) => Attempted(VercelCmd)
    /\ Attempted(VercelCmd) => Attempted("gh repo create")

(***************************************************************************)
(* C4, amended.  Once file creation has finished and unless the user       *)
(* interrupts one of git init/add/commit, vercel is attempted whether the  *)
(* git and gh commands succeeded or failed; gh repo create is attempted    *)
(* if and only if git init, git add and git commit all succeeded.          *)
(***************************************************************************)
GitAllSucceeded == \A i \in 1..Len(GitPhase) : Succeeded(GitPhase[i])

C4_Amended ==
    /\ (RunSetupReturned /\ Said("created_total") /\ ~GitPhaseInterrupted) => Attempted(VercelCmd)
    /\ (pc \notin {"git init", "git add", "git commit", "gh repo create"})
          => (Attempted("gh repo create") <=> GitAllSucceeded)
    /\ Attempted("gh repo create") => GitAllSucceeded

\* run_setup returned after git add failed: vercel was attempted, gh repo create was not
C4_Witness ==
    /\ RunSetupReturned
    /\ \E i \in At("end", "git add") : FailedAt(i)
    /\ Attempted(VercelCmd)
    /\ ~Attempted("gh repo create")

(***************************************************************************)
(* C5.  At most one external command is in flight, and nothing else        *)
(* happens while it is: an event follows the start of a command only       *)
(* after that command has ended.                                           *)
(***************************************************************************)
C5_Blocking ==
    /\ Cardinality(running) <= 1
    /\ \A i \in RunsAll :
          IF i = Len(log) THEN running = {log[i].v} /\ pc = log[i].v
          ELSE log[i + 1].k = "end" /\ log[i + 1].v = log[i].v
    /\ \A i \in 1..Len(log) : log[i].k = "end" => (i > 1 /\ log[i - 1] = Event("run", log[i].v, <<>>))
    /\ (running # {}) => (Len(log) > 0 /\ log[Len(log)].k = "run")

\* git push is in flight
C5_Witness == running = {"git push"}

(***************************************************************************)
(* C6.  No retry: in one run each of the seven commands is invoked at most *)
(* once, whatever the outcomes, and each of the 16 files is written at     *)
(* most once.                                                              *)
(***************************************************************************)
C6_NoRetry ==
    /\ \A c \in Commands : Cardinality(At("run", c)) <= 1
    /\ \A i, j \in Writes : log[i].arg = log[j].arg => i = j
    /\ Cardinality(RunsAll) <= 7
    /\ Cardinality(Writes) <= 16

\* the run is over, git commit failed, and vercel failed too
C6_Witness ==
    /\ pc = "done"
    /\ \E i \in At("end", "git commit") : FailedAt(i)
    /\ \E i \in At("end", VercelCmd) : FailedAt(i)
    /\ Cardinality(Writes) = 16

(***************************************************************************)
(* C8.  The git commands run in the order init, add, commit, each only     *)
(* after the previous one succeeded.  The first that fails is followed by  *)
(* the 'Git setup failed' warning and by no further git or gh-phase        *)
(* command.  'Git repository initialized' is printed if and only if all    *)
(* three succeeded.                                                        *)
(***************************************************************************)
C8_GitPhase ==
    /\ Attempted("git add") => Succeeded("git init")
    /\ Attempted("git commit") => Succeeded("git add")
    /\ \A i \in At("run", "git add") : \A j \in At("run", "git init") : j < i
    /\ \A i \in At("run", "git commit") : \A j \in At("run", "git add") : j < i
    /\ \A i \in 1..Len(log) :
          (Phase(log[i].v) = "git" /\ FailedAt(i)) =>
              /\ i < Len(log) /\ log[i + 1] = Say("git_failed")
              /\ \A j \in RunsAll : j > i => log[j].v = VercelCmd
    /\ \A i \in At("print", "git_failed") :
          i > 1 /\ Phase(log[i - 1].v) = "git" /\ FailedAt(i - 1)
    /\ Said("git_ok") <=> GitAllSucceeded

\* git add failed after git init succeeded, and the run went on to vercel
C8_Witness ==
    /\ Succeeded("git init")
    /\ \E i \in At("end", "git add") : FailedAt(i)
    /\ Said("git_failed")
    /\ Attempted(VercelCmd)

(***************************************************************************)
(* C9.  The gh phase is attempted only after git commit succeeded, runs    *)
(* gh repo create, git remote add, git push in that order and stops at    *)
(* the first that does not succeed.  That one is followed by the 'GitHub   *)
(* CLI not available' warning, never by 'Git setup failed', and then by    *)
(* the vercel attempt.  'GitHub repository created and pushed' is printed  *)
(* if and only if all three succeeded.                                     *)
(***************************************************************************)
GhAllSucceeded == \A i \in 1..Len(GhPhase) : Succeeded(GhPhase[i])

\* the end event at i is not a success: a failure or an interrupt
NotOkAt(i) == log[i].k = "end" /\ log[i].arg # <<"exit", 0>>

C9_GhPhase ==
    /\ Attempted("gh repo create") => Succeeded("git commit")
    /\ Attempted("git remote add") => Succeeded("gh repo create")
    /\ Attempted("git push") => Succeeded("git remote add")
    /\ \A i \in At("run", "gh repo create") : \A j \in At("end", "git commit") : j < i
    /\ \A i \in At("run", "git remote add") : \A j \in At("run", "gh repo create") : j < i
    /\ \A i \in At("run", "git push") : \A j \in At("run", "git remote add") : j < i
    /\ \A i \in 1..Len(log) :
          (Phase(log[i].v) = "gh" /\ NotOkAt(i)) =>
              /\ i < Len(log) /\ log[i + 1] = Say("gh_unavailable")
              /\ ~Said("git_failed")
              /\ \A j \in RunsAll : j > i => log[j].v = VercelCmd
              /\ pc = VercelCmd \/ Attempted(VercelCmd)
              /\ ret = "none" => pc \in {VercelCmd, "summary"}
    /\ \A i \in At("print", "gh_unavailable") :
          i > 1 /\ Phase(log[i - 1].v) = "gh" /\ NotOkAt(i - 1)
    /\ Said("gh_ok") <=> GhAllSucceeded

\* git push failed after gh repo create and git remote add succeeded; vercel was attempted
C9_Witness ==
    /\ Succeeded("git remote add")
    /\ \E i \in At("end", "git push") : NotOkAt(i)
    /\ Said("gh_unavailable")
    /\ Attempted(VercelCmd)

(***************************************************************************)
(* C10.  Per deployment attempt that was not interrupted by the user,      *)
(* exactly one of 'Deployed to Vercel successfully', 'Vercel deployment    *)
(* failed' and 'Vercel CLI not found' is printed; the success message is   *)
(* printed if and only if the command ran and exited with status 0; a      *)
(* 'Live URL' line is printed at most once, and only after the success     *)
(* message.                                                                *)
(***************************************************************************)
VercelVerdicts == {"vercel_ok", "vercel_failed", "vercel_notfound"}

C10_VercelReport ==
    /\ \A i \in At("end", VercelCmd) :
          ~Interrupted(i) =>
              Cardinality({j \in 1..Len(log) : log[j].k = "print" /\ log[j].v \in VercelVerdicts}) = 1
    /\ Said("vercel_ok") <=> Succeeded(VercelCmd)
    /\ Cardinality(At("print", "live_url")) <= 1
    /\ \A i \in At("print", "live_url") : i > 1 /\ log[i - 1] = Say("vercel_ok")

(***************************************************************************)
(* The generated stub handlers: api/launch.py, api/scaling.py,             *)
(* api/status.py and api/ai-learning.py, as the literals of                *)
(* get_launch_api, get_scaling_api, get_status_api and get_ai_learning_api *)
(* define them.  A response is the status given to send_response, the      *)
(* headers given to send_header, in order, and the dict written as JSON,   *)
(* here the sequence of its items (nested keys dotted, values as text).    *)
(***************************************************************************)
Item(key, val) == [key |-> key, val |-> val]

Response(status, headers, body) == [status |-> status, headers |-> headers, body |-> body]

\* datetime.now().isoformat()
Isoformat(now) == "T" \o ToString(now)

JsonHeaders ==
    << <<"Content-type", "application/json">>, <<"Access-Control-Allow-Origin", "*">> >>

CorsHeaders ==
    << <<"Access-Control-Allow-Origin", "*">>,
       <<"Access-Control-Allow-Methods", "GET, POST, OPTIONS">>,
       <<"Access-Control-Allow-Headers", "Content-Type">> >>

\* do_OPTIONS, the same in the four files: headers only
do_OPTIONS(req, now) == Response(200, CorsHeaders, <<>>)

launch_do_POST(req, now) ==
    Response(200, JsonHeaders,
        << Item("status", "success"),
           Item("message", "System launched successfully"),
           Item("launch_time", Isoformat(now)),
           Item("components.ai_brain", "active"),
           Item("components.revenue_tracker", "active"),
           Item("components.scaling_engine", "active") >>)

launch_do_GET(req, now) ==
    Response(200, JsonHeaders,
        << Item("status", "operational"),
           Item("launched", "true"),
           Item("timestamp", Isoformat(now)) >>)

scaling_do_POST(req, now) ==
    Response(200, JsonHeaders,
        << Item("status", "success"),
           Item("scaling_candidates", "2"),
           Item("execution_results.executed_actions", "3"),
           Item("execution_results.total_investment", "750"),
           Item("execution_results.expected_return", "2250"),
           Item("execution_results.success_rate", "95.5"),
           Item("execution_time", "0.8") >>)

scaling_do_GET_echo(req, now) ==
    Response(200, JsonHeaders,
        << Item("status", "operational"),
           Item("scaling_engine", req.path) >>)

scaling_do_GET(req, now) ==
    Response(200, JsonHeaders,
        << Item("status", "operational"),
           Item("scaling_engine", "active") >>)

status_do_GET(req, now) ==
    Response(200, JsonHeaders,
        << Item("status", "operational"),
           Item("revenue", "1247.83"),
           Item("patterns_learned", "127"),
           Item("optimizations", "34"),
           Item("daily_target", "1000"),
           Item("success_rate", "94.5"),
           Item("uptime", "28472"),
           Item("last_update", Isoformat(now)) >>)

ai_learning_do_POST(req, now) ==
    Response(200, JsonHeaders,
        << Item("status", "learning"),
           Item("patterns_discovered", "5"),
           Item("optimizations_generated", "3"),
           Item("learning_improvement", "1.2"),
           Item("recommendations.0.type", "high_impact"),
           Item("recommendations.0.message", "Increase ad spend on high-performing campaigns"),
           Item("recommendations.1.type", "optimization"),
           Item("recommendations.1.message", "A/B test new landing page design") >>)

ai_learning_do_GET(req, now) ==
    Response(200, JsonHeaders,
        << Item("status", "learning"),
           Item("patterns_learned", "156"),
           Item("learning_velocity", "1.3") >>)

ApiFiles == {"api/launch.py", "api/scaling.py", "api/status.py", "api/ai-learning.py"}

Methods == {"GET", "POST", "OPTIONS"}

\* the do_* methods a file's handler class defines: api/status.py has no do_POST
Defines(file, method) == ~(file = "api/status.py" /\ method = "POST")

\* the method of the file's handler class that answers the request
Handle(req, now) ==
    CASE req.method = "OPTIONS" -> do_OPTIONS(req, now)
      [] req.file = "api/launch.py" /\ req.method = "POST" -> launch_do_POST(req, now)
      [] req.file = "api/launch.py" /\ req.method = "GET" -> launch_do_GET(req, now)
      [] req.file = "api/scaling.py" /\ req.method = "POST" -> scaling_do_POST(req, now)
      [] req.file = "api/scaling.py" /\ req.method = "GET" -> scaling_do_GET(req, now)
      [] req.file = "api/status.py" /\ req.method = "GET" -> status_do_GET(req, now)
      [] req.file = "api/ai-learning.py" /\ req.method = "POST" -> ai_learning_do_POST(req, now)
      [] req.file = "api/ai-learning.py" /\ req.method = "GET" -> ai_learning_do_GET(req, now)

\* what a client can send besides the file and the method: path, headers, body
RequestInputs ==
    { [path |-> "/", headers |-> <<>>, body |-> ""],
      [path |-> "/x?launch=0", headers |-> <<>>, body |-> ""],
      [path |-> "/", headers |-> << <<"Content-Type", "application/json">> >>,
       body |-> "{\"status\": \"down\"}"] }

Requests ==
    { [file |-> f, method |-> m, path |-> i.path, headers |-> i.headers, body |-> i.body] :
          f \in ApiFiles, m \in Methods, i \in RequestInputs }

\* a request is answered by a fresh handler object: nothing of served is read
Serve ==
    /\ Len(served) < MaxRequests
    /\ \E req \in Requests :
          /\ Defines(req.file, req.method)
          /\ served' = Append(served, [req |-> req, at |-> clock, resp |-> Handle(req, clock)])
    /\ UNCHANGED clock
    /\ UNCHANGED setupVars

\* time passes on the host of the handlers
Tick ==
    /\ clock < MaxClock
    /\ clock' = clock + 1
    /\ UNCHANGED served
    /\ UNCHANGED setupVars

NextApi ==
    \/ Serve
    \/ Tick

\* the handlers run on the deployment host, apart from the script
InitHost == Init /\ disk = EmptyDisk

SpecApi == InitHost /\ [][NextApi]_vars

(***************************************************************************)
(* C7.  As claimed: for each stub handler and each method it defines, the  *)
(* status is 200 and the headers and the body are the same for any two     *)
(* requests, whatever the request and whatever was served before.          *)
(***************************************************************************)
SameEndpoint(a, b) == a.req.file = b.req.file /\ a.req.method = b.req.method

C7_Original ==
    \A i, j \in 1..Len(served) :
        SameEndpoint(served[i], served[j]) =>
            /\ served[i].resp.status = 200
            /\ served[i].resp = served[j].resp

(***************************************************************************)
(* C7, amended.  For each stub handler and each method it defines, the     *)
(* status is 200 and the headers the handler sends are the same for any    *)
(* two requests, and so is the body except for its one timestamp field     *)
(* (launch_time of POST api/launch.py, timestamp of GET api/launch.py,     *)
(* last_update of GET api/status.py), which is the handler's clock at the  *)
(* time of the request: the response depends on nothing of the request     *)
(* and on no earlier request, only on the time.                            *)
(***************************************************************************)
TimeFields == {"launch_time", "timestamp", "last_update"}

\* the body with its timestamp values blanked
SansTime(body) ==
    [n \in 1..Len(body) |-> IF body[n].key \in TimeFields THEN Item(body[n].key, "") ELSE body[n]]

HasTimeField(e) ==
    \/ e.req.file = "api/launch.py" /\ e.req.method \in {"GET", "POST"}
    \/ e.req.file = "api/status.py" /\ e.req.method = "GET"

C7_Amended ==
    \A i, j \in 1..Len(served) :
        SameEndpoint(served[i], served[j]) =>
            /\ served[i].resp.status = 200
            /\ served[i].resp.headers = served[j].resp.headers
            /\ SansTime(served[i].resp.body) = SansTime(served[j].resp.body)
            /\ served[i].at = served[j].at => served[i].resp = served[j].resp
            /\ ~HasTimeField(served[i]) => served[i].resp = served[j].resp
            /\ HasTimeField(served[i]) =>
                  \E n \in 1..Len(served[i].resp.body) :
                      /\ served[i].resp.body[n].key \in TimeFields
                      /\ served[i].resp.body[n].val = Isoformat(served[i].at)

\* GET api/status.py was served twice, at two times, with requests that differ
C7_Witness ==
    \E i, j \in 1..Len(served) :
        /\ SameEndpoint(served[i], served[j])
        /\ served[i].req.file = "api/status.py" /\ served[i].req.method = "GET"
        /\ served[i].req.path # served[j].req.path
        /\ served[i].at # served[j].at

(***************************************************************************)
(* C11.  If creating the directory or writing the k-th file of the mapping *)
(* fails, the k-1 files written before it stay on disk with their full     *)
(* content, no later file is written, no external command is invoked, the  *)
(* completion summary is not printed, and run_setup prints 'Setup failed'  *)
(* and returns False.                                                      *)
(***************************************************************************)
PathIndex(p) == CHOOSE i \in 1..Len(files_to_create) : files_to_create[i].path = p

\* the iterations of create_all_files that ended with an error (not a user interrupt)
FileFailures == {i \in 1..Len(log) : log[i].k = "raise" /\ log[i].v # "interrupt"}

C11_FileFailure ==
    \A i \in FileFailures :
        LET k == PathIndex(log[i].arg)
            before == {files_to_create[j].path : j \in 1..(k - 1)}
        IN /\ \A j \in 1..(k - 1) :
                 /\ files_to_create[j].path \in DOMAIN disk
                 /\ disk[files_to_create[j].path] = files_to_create[j].content
           /\ {log[w].arg : w \in Writes} = before
           /\ \A w \in Writes : w < i
           /\ RunsAll = {}
           /\ ~Said("summary")
           /\ i < Len(log) /\ log[i + 1] = Say("setup_failed")
           /\ ret = "False"
           /\ mainRet # "True"

\* the run is over after opening the 7th file (core/scaling_engine.py) failed
C11_Witness ==
    /\ pc = "done"
    /\ \E i \in FileFailures : log[i].v = "open_error" /\ PathIndex(log[i].arg) = 7
    /\ disk[<<"core", "__init__.py">>] = <<>>

(***************************************************************************)
(* C12.  If the user cancels at the banner prompt, the process exits with  *)
(* status 1 straight from print_banner: no file is written, no external    *)
(* command is invoked, run_setup returns no value and main prints neither  *)
(* of its final lines.  This is the only path that ends with a non-zero    *)
(* exit status: on every other path main returns and the status is 0,      *)
(* also when run_setup returned False.                                     *)
(***************************************************************************)
CancelledAtBanner == At("input", "KeyboardInterrupt") # {}

C12_BannerCancel ==
    /\ \A i \in At("input", "KeyboardInterrupt") :
          /\ i < Len(log) /\ log[i + 1] = Say("banner_cancelled")
          /\ pc = "done"
          /\ exitStatus = 1
          /\ Writes = {} /\ (disk = EmptyDisk \/ disk = StaleDisk)
          /\ RunsAll = {}
          /\ ret = "none" /\ mainRet = "none"
          /\ ~Said("main_ok") /\ ~Said("main_errors")
    /\ exitStatus \notin {-1, 0} => CancelledAtBanner
    /\ (pc = "done" /\ ~CancelledAtBanner) =>
          /\ exitStatus = 0
          /\ ret \in {"True", "False"} /\ mainRet = ret
          /\ Said("main_ok") \/ Said("main_errors")

\* the user pressed Ctrl+C at the prompt and the process has exited with status 1
C12_Witness ==
    /\ CancelledAtBanner
    /\ Said("banner_cancelled")
    /\ pc = "done" /\ exitStatus = 1

(***************************************************************************)
(* C13.  A user interrupt after the banner: raised during file creation,   *)
(* during git init/add/commit or during the vercel invocation it stops the *)
(* setup there (no later step, no completion summary), and run_setup       *)
(* prints 'Setup cancelled by user' and returns False; raised during one   *)
(* of the three gh-phase commands it is swallowed by the bare except,      *)
(* reported as 'GitHub CLI not available', and the setup goes on with the  *)
(* vercel deployment (and can still return True: C13_Witness).             *)
(***************************************************************************)
FileInterrupts == {i \in 1..Len(log) : log[i].k = "raise" /\ log[i].v = "interrupt"}

CommandInterrupts(phases) ==
    {i \in 1..Len(log) : log[i].k = "end" /\ Phase(log[i].v) \in phases /\ Interrupted(i)}

C13_Interrupts ==
    /\ \A i \in FileInterrupts \cup CommandInterrupts({"git", "vercel"}) :
          /\ i < Len(log) /\ log[i + 1] = Say("setup_cancelled")
          /\ ret = "False"
          /\ \A j \in 1..Len(log) : j > i => log[j].k = "print"
          /\ \A j \in 1..Len(log) : j > i + 1 => log[j] = Say("main_errors")
          /\ ~Said("summary")
          /\ pc \in {"main", "done"}
    /\ \A i \in CommandInterrupts({"gh"}) :
          /\ i < Len(log) /\ log[i + 1] = Say("gh_unavailable")
          /\ ~Said("git_failed")
          /\ \A j \in RunsAll : j > i => log[j].v = VercelCmd
          /\ pc = VercelCmd \/ Attempted(VercelCmd)
          /\ Said("setup_cancelled") => CommandInterrupts({"vercel"}) # {}
    /\ \A i \in At("print", "setup_cancelled") :
          i - 1 \in FileInterrupts \cup CommandInterrupts({"git", "vercel"})

\* git remote add was interrupted, and run_setup still returned True after the summary
C13_Witness ==
    /\ \E i \in CommandInterrupts({"gh"}) : log[i].v = "git remote add"
    /\ Said("gh_unavailable")
    /\ Succeeded(VercelCmd)
    /\ Said("summary")
    /\ ret = "True"

(***************************************************************************)
(* C14.  Whenever main has returned, it has printed exactly one of its two *)
(* final lines, and the values and messages agree: the completion summary  *)
(* was printed iff run_setup returned True iff main printed 'Setup         *)
(* completed successfully' and returned True; otherwise main printed       *)
(* 'Setup encountered errors' and returned False.  run_setup returns True  *)
(* only after all 16 files were written and vercel was attempted.          *)
(***************************************************************************)
MainReturned == mainRet # "none"

C14_MainAgrees ==
    /\ MainReturned =>
          /\ Cardinality(At("print", "main_ok") \cup At("print", "main_errors")) = 1
          /\ log[Len(log)] \in {Say("main_ok"), Say("main_errors")}
          /\ Said("summary") <=> ret = "True"
          /\ ret = "True" <=> (Said("main_ok") /\ mainRet = "True")
          /\ ret # "True" => (ret = "False" /\ Said("main_errors") /\ mainRet = "False")
    /\ ~MainReturned => (~Said("main_ok") /\ ~Said("main_errors"))
    /\ Said("summary") <=> ret = "True"
    /\ ret = "True" =>
          /\ {log[w].arg : w \in Writes} = Paths /\ Cardinality(Writes) = 16
          /\ \A p \in Paths : p \in DOMAIN disk
          /\ At("end", VercelCmd) # {}

\* main returned False after the files were written: the vercel launch failure of C3
C14_Witness ==
    /\ MainReturned
    /\ mainRet = "False"
    /\ Said("main_errors")
    /\ Said("created_total")
    /\ Attempted(VercelCmd)

====
